---- MODULE Spec2Model ----
(***************************************************************************)
(* Model of fast_segmentation/core/train.py: the training loop of train(), *)
(* its periodic evaluation and checkpointing (save_evaluation_log,         *)
(* save_best_model, save_checkpoint) run by every rank of a distributed    *)
(* job, and the parameter grouping of get_optimizer.                       *)
(***************************************************************************)
EXTENDS Integers, Sequences, FiniteSets

\* ---- bounds of the model ------------------------------------------------
NumRanks == 2        \* world size (torch.cuda.device_count())
MaxBatches == 5      \* largest number of batches the loader yields
MaxCheckpointIters == 3
MaxScore == 2        \* scores (mIOU) are drawn from 0..MaxScore
MaxParams == 3       \* largest number of parameters of the network
MaxDim == 5          \* parameter dimensionalities are drawn from 0..MaxDim
MaxWeightDecay == 1

Ranks == 0 .. (NumRanks - 1)
Scores == 0 .. MaxScore
Dims == 0 .. MaxDim

VARIABLES
    num_batches,      \* number of batches data_loader yields (same on every rank)
    checkpoint_iters, \* the checkpoint_iters argument of train
    pc,               \* pc[r]: position of rank r in train
    iteration,        \* iteration[r]: the loop counter of rank r
    weights,          \* weights[r]: number of optimizer steps applied to net on rank r
    best_score,       \* best_score[r]: the local best_score of train on rank r
    mious_val,        \* mious_val[0] of the evaluation last computed (equal on all ranks)
    eval_round,       \* number of evaluations whose score has been computed
    best_call,        \* best_call[r]: arguments and result of the last save_best_model call
    best_model,       \* the torch.save calls made on best_model.pth, oldest first
    checkpoints,      \* the torch.save calls made on model_final_* files, oldest first
    evals,            \* evals[r]: iterations at which rank r entered save_evaluation_log
    ckpts,            \* ckpts[r]: iterations at which rank r called save_checkpoint
    params,           \* dim() of every parameter net.named_parameters() yields
    weight_decay,     \* the weight_decay argument of get_optimizer
    opt_pc,           \* position in get_optimizer
    param_idx,        \* index of the next parameter the loop of get_optimizer visits
    wd_params,        \* indices of the parameters collected in wd_params
    non_wd_params,    \* indices of the parameters collected in non_wd_params
    param_groups      \* the param_groups of the optimizer built

trainVars == <<num_batches, checkpoint_iters, pc, iteration, weights, best_score,
               mious_val, eval_round, best_call, best_model, checkpoints, evals, ckpts>>
optVars == <<params, weight_decay, opt_pc, param_idx, wd_params, non_wd_params, param_groups>>
vars == <<trainVars, optVars>>

\* ---- helpers ------------------------------------------------------------
Max(a, b) == CHOOSE m \in {a, b} : m >= a /\ m >= b

Last(s) == s[Len(s)]

NoCall == [called |-> FALSE, cur |-> 0, best |-> 0, ret |-> 0]

\* ---- save_best_model ----------------------------------------------------
\* Variant: the better score is saved but the old best score is returned.
save_best_model_stale_return(cur_score, best, rank) ==
    [best_score |-> best, save |-> (cur_score > best /\ rank = 0)]

\* Variant: a tie counts as better.
save_best_model_on_tie(cur_score, best, rank) ==
    IF cur_score >= best
    THEN [best_score |-> cur_score, save |-> (rank = 0)]
    ELSE [best_score |-> best, save |-> FALSE]

\* Variant: the rank is not looked at before torch.save.
save_best_model_any_rank(cur_score, best, rank) ==
    IF cur_score > best
    THEN [best_score |-> cur_score, save |-> TRUE]
    ELSE [best_score |-> best, save |-> FALSE]

\* The value returned and whether this rank performs torch.save.
save_best_model(cur_score, best, rank) ==
    IF cur_score > best
    THEN [best_score |-> cur_score, save |-> (rank = 0)]
    ELSE [best_score |-> best, save |-> FALSE]

\* ---- save_checkpoint ----------------------------------------------------
\* Variant: the rank is not looked at before torch.save.
save_checkpoint_any_rank(rank) == TRUE

\* Whether this rank performs torch.save of the checkpoint.
save_checkpoint(rank) == rank = 0

\* ---- train: the condition of the periodic evaluation and checkpoint -----
\* Variant: the period is counted from the 0-based iteration.
IsCheckpointIterZeroBased(i) == i % checkpoint_iters = 0

IsCheckpointIter(i) == (i + 1) % checkpoint_iters = 0

\* ---- initial state of train ---------------------------------------------
TrainInit ==
    /\ num_batches \in 1 .. MaxBatches
    /\ checkpoint_iters \in 1 .. MaxCheckpointIters
    /\ pc = [r \in Ranks |-> "loop"]
    /\ iteration = [r \in Ranks |-> 0]
    /\ weights = [r \in Ranks |-> 0]
    /\ best_score = [r \in Ranks |-> 0]
    /\ mious_val = 0
    /\ eval_round = 0
    /\ best_call = [r \in Ranks |-> NoCall]
    /\ best_model = << >>
    /\ checkpoints = << >>
    /\ evals = [r \in Ranks |-> << >>]
    /\ ckpts = [r \in Ranks |-> << >>]

OptIdle ==
    /\ params = << >>
    /\ weight_decay = 0
    /\ opt_pc = "idle"
    /\ param_idx = 1
    /\ wd_params = << >>
    /\ non_wd_params = << >>
    /\ param_groups = << >>

Init == TrainInit /\ OptIdle

\* ---- the steps of train on rank r ---------------------------------------
\* The loader yields the next batch; the forward pass runs and the rank
\* enters the gradient all-reduce of backward().
NextBatch(r) ==
    /\ pc[r] = "loop"
    /\ iteration[r] < num_batches
    /\ pc' = [pc EXCEPT ![r] = "backward"]
    /\ UNCHANGED <<num_batches, checkpoint_iters, iteration, weights, best_score,
                   mious_val, eval_round, best_call, best_model, checkpoints, evals,
                   ckpts>>

\* Every rank has entered the all-reduce of this iteration.
GradientsReduced(r) ==
    \A q \in Ranks : \/ iteration[q] > iteration[r]
                     \/ iteration[q] = iteration[r] /\ pc[q] # "loop"

\* Variant of TrainStep: only rank 0 enters save_evaluation_log.
TrainStepRankZeroEvaluates(r) ==
    /\ pc[r] = "backward"
    /\ GradientsReduced(r)
    /\ weights' = [weights EXCEPT ![r] = @ + 1]
    /\ IF r = 0 /\ (iteration[r] + 1) % checkpoint_iters = 0
       THEN /\ pc' = [pc EXCEPT ![r] = "eval"]
            /\ evals' = [evals EXCEPT ![r] = Append(@, iteration[r])]
            /\ UNCHANGED iteration
       ELSE /\ pc' = [pc EXCEPT ![r] = "loop"]
            /\ iteration' = [iteration EXCEPT ![r] = @ + 1]
            /\ UNCHANGED evals
    /\ UNCHANGED <<num_batches, checkpoint_iters, best_score, mious_val, eval_round,
                   best_call, best_model, checkpoints, ckpts>>

\* backward() completes, the optimizer steps, and the loop either enters
\* save_evaluation_log or steps the scheduler and goes to the next batch.
TrainStep(r) ==
    /\ pc[r] = "backward"
    /\ GradientsReduced(r)
    /\ weights' = [weights EXCEPT ![r] = @ + 1]
    /\ IF IsCheckpointIter(iteration[r])
       THEN /\ pc' = [pc EXCEPT ![r] = "eval"]
            /\ evals' = [evals EXCEPT ![r] = Append(@, iteration[r])]
            /\ UNCHANGED iteration
       ELSE /\ pc' = [pc EXCEPT ![r] = "loop"]
            /\ iteration' = [iteration EXCEPT ![r] = @ + 1]
            /\ UNCHANGED evals
    /\ UNCHANGED <<num_batches, checkpoint_iters, best_score, mious_val, eval_round,
                   best_call, best_model, checkpoints, ckpts>>

\* Every rank has entered the evaluation this rank is in.
AllInEvaluation(r) == \A q \in Ranks : Len(evals[q]) >= Len(evals[r])

\* The two eval_model calls of save_evaluation_log return.  The evaluation is
\* collective: the first rank to leave it fixes the score, every other rank
\* of the same evaluation gets the same one.
EvalModel(r) ==
    /\ pc[r] = "eval"
    /\ AllInEvaluation(r)
    /\ IF eval_round < Len(evals[r])
       THEN /\ mious_val' \in Scores
            /\ eval_round' = Len(evals[r])
       ELSE UNCHANGED <<mious_val, eval_round>>
    /\ pc' = [pc EXCEPT ![r] = "best"]
    /\ UNCHANGED <<num_batches, checkpoint_iters, iteration, weights, best_score,
                   best_call, best_model, checkpoints, evals, ckpts>>

\* save_best_model is called and save_evaluation_log returns its result.
SaveBestModel(r) ==
    /\ pc[r] = "best"
    /\ LET res == save_best_model(mious_val, best_score[r], r) IN
        /\ best_score' = [best_score EXCEPT ![r] = res.best_score]
        /\ best_call' = [best_call EXCEPT ![r] =
                            [called |-> TRUE, cur |-> mious_val,
                             best |-> best_score[r], ret |-> res.best_score]]
        /\ best_model' = IF res.save
                         THEN Append(best_model, [rank |-> r, weights |-> weights[r]])
                         ELSE best_model
    /\ pc' = [pc EXCEPT ![r] = "ckpt"]
    /\ UNCHANGED <<num_batches, checkpoint_iters, iteration, weights, mious_val,
                   eval_round, checkpoints, evals, ckpts>>

\* save_checkpoint, then lr_scheduler.step() and the next iteration.
SaveCheckpoint(r) ==
    /\ pc[r] = "ckpt"
    /\ checkpoints' = IF save_checkpoint(r)
                      THEN Append(checkpoints, [rank |-> r, weights |-> weights[r]])
                      ELSE checkpoints
    /\ ckpts' = [ckpts EXCEPT ![r] = Append(@, iteration[r])]
    /\ iteration' = [iteration EXCEPT ![r] = @ + 1]
    /\ pc' = [pc EXCEPT ![r] = "loop"]
    /\ UNCHANGED <<num_batches, checkpoint_iters, weights, best_score, mious_val,
                   eval_round, best_call, best_model, evals>>

\* The loader is exhausted: writer.flush(), writer.close(), train returns.
CloseWriter(r) ==
    /\ pc[r] = "loop"
    /\ iteration[r] = num_batches
    /\ pc' = [pc EXCEPT ![r] = "done"]
    /\ UNCHANGED <<num_batches, checkpoint_iters, iteration, weights, best_score,
                   mious_val, eval_round, best_call, best_model, checkpoints, evals,
                   ckpts>>

RankStep(r) ==
    \/ NextBatch(r)
    \/ TrainStep(r)
    \/ EvalModel(r)
    \/ SaveBestModel(r)
    \/ SaveCheckpoint(r)
    \/ CloseWriter(r)

Next == (\E r \in Ranks : RankStep(r)) /\ UNCHANGED optVars

Spec == Init /\ [][Next]_vars

\* Every rank is a running process: it takes its next step when it can.
FairSpec == Spec /\ \A r \in Ranks : WF_vars(RankStep(r) /\ UNCHANGED optVars)

\* ---- get_optimizer ------------------------------------------------------
\* Variant: only the 2-dimensional parameters get weight decay.
ParamListLinearOnly(dim) ==
    IF dim = 1 THEN "non_wd_params"
    ELSE IF dim = 2 THEN "wd_params"
    ELSE "none"

\* The list a parameter of dimensionality dim is appended to.
ParamList(dim) ==
    IF dim = 1 THEN "non_wd_params"
    ELSE IF dim = 2 \/ dim = 4 THEN "wd_params"
    ELSE "none"

\* All sequences of dimensionalities of at most MaxParams parameters.
ParamSeqs == UNION {[1 .. n -> Dims] : n \in 0 .. MaxParams}

\* train is not running while get_optimizer is studied on its own.
TrainIdle ==
    /\ num_batches = 1
    /\ checkpoint_iters = 1
    /\ pc = [r \in Ranks |-> "loop"]
    /\ iteration = [r \in Ranks |-> 0]
    /\ weights = [r \in Ranks |-> 0]
    /\ best_score = [r \in Ranks |-> 0]
    /\ mious_val = 0
    /\ eval_round = 0
    /\ eval_round = 0
    /\ best_call = [r \in Ranks |-> NoCall]
    /\ best_model = << >>
    /\ checkpoints = << >>
    /\ evals = [r \in Ranks |-> << >>]
    /\ ckpts = [r \in Ranks |-> << >>]

OptInit ==
    /\ TrainIdle
    /\ params \in ParamSeqs
    /\ weight_decay \in 0 .. MaxWeightDecay
    /\ opt_pc = "loop"
    /\ param_idx = 1
    /\ wd_params = << >>
    /\ non_wd_params = << >>
    /\ param_groups = << >>

\* One pass of the loop over net.named_parameters().
VisitParam ==
    /\ opt_pc = "loop"
    /\ param_idx <= Len(params)
    /\ LET list == ParamList(params[param_idx]) IN
        /\ non_wd_params' = IF list = "non_wd_params"
                            THEN Append(non_wd_params, param_idx) ELSE non_wd_params
        /\ wd_params' = IF list = "wd_params"
                        THEN Append(wd_params, param_idx) ELSE wd_params
    /\ param_idx' = param_idx + 1
    /\ UNCHANGED <<params, weight_decay, opt_pc, param_groups>>

\* params_list is built and handed to Adam, whose default weight_decay is the
\* weight_decay argument.
BuildOptimizer ==
    /\ opt_pc = "loop"
    /\ param_idx > Len(params)
    /\ param_groups' = << [params |-> wd_params, weight_decay |-> weight_decay],
                          [params |-> non_wd_params, weight_decay |-> 0] >>
    /\ opt_pc' = "done"
    /\ UNCHANGED <<params, weight_decay, param_idx, wd_params, non_wd_params>>

OptNext == (VisitParam \/ BuildOptimizer) /\ UNCHANGED trainVars

SpecOpt == OptInit /\ [][OptNext]_vars

\* ======================= properties of the claims ========================
AllDone == \A r \in Ranks : pc[r] = "done"

\* Rank r is inside the evaluation-and-checkpoint branch of an iteration.
InCheckpointBranch(r) == pc[r] \in {"eval", "best", "ckpt"}

\* Number of iterations of rank r whose checkpoint condition has been decided.
Decided(r) == iteration[r] + (IF InCheckpointBranch(r) THEN 1 ELSE 0)

\* The iterations i < n with (i + 1) % checkpoint_iters = 0, in increasing order.
CheckpointIterations(n) == [k \in 1 .. (n \div checkpoint_iters) |-> k * checkpoint_iters - 1]

IsPrefix(s, t) == Len(s) <= Len(t) /\ \A k \in 1 .. Len(s) : s[k] = t[k]

\* Number of positions of sequence s that hold x.
Count(s, x) == Cardinality({k \in 1 .. Len(s) : s[k] = x})

\* C1: every completed call of save_best_model returned max(cur_score,
\* best_score): a value that is one of the two scores and is lower than neither.
C1_ReturnsMax ==
    \A r \in Ranks :
        best_call[r].called =>
            /\ best_call[r].ret = Max(best_call[r].cur, best_call[r].best)
            /\ best_call[r].ret >= best_call[r].best
            /\ best_call[r].ret >= best_call[r].cur

\* C1 witness: a call whose current score is below a best score raised earlier.
C1_Witness ==
    \E r \in Ranks : /\ best_call[r].called
                     /\ best_call[r].cur < best_call[r].best
                     /\ best_call[r].ret = best_call[r].best

\* C2: best_model.pth is written by a step exactly when that step is the
\* save_best_model call of rank 0 with cur_score > best_score (strictly), and
\* the file then holds the current weights; on cur_score <= best_score, a tie
\* included, and in every other step the saved file is left unchanged.
C2_SavedIffStrictlyBetter ==
    [][ /\ (best_model' # best_model) <=>
              (pc[0] = "best" /\ pc'[0] = "ckpt" /\ mious_val > best_score[0])
        /\ (best_model' # best_model) =>
              best_model' = Append(best_model, [rank |-> 0, weights |-> weights[0]])
      ]_vars

\* C2 witness: rank 0 has called save_best_model on a tie with the score of
\* the best model saved before, and the file still is that one save.
C2_Witness ==
    /\ best_call[0].called
    /\ best_call[0].cur = best_call[0].best
    /\ best_call[0].cur > 0
    /\ Len(best_model) = 1
    /\ Len(ckpts[0]) >= 2

\* C3: on every rank the evaluations ran at exactly the decided iterations i
\* with (i + 1) % checkpoint_iters = 0, each once, every checkpoint save
\* follows the evaluation of the same iteration, and when train returns both
\* ran floor(N / checkpoint_iters) times at the same iterations.
C3_Periodic ==
    \A r \in Ranks :
        /\ evals[r] = CheckpointIterations(Decided(r))
        /\ IsPrefix(ckpts[r], evals[r])
        /\ Len(evals[r]) - Len(ckpts[r]) = (IF InCheckpointBranch(r) THEN 1 ELSE 0)
        /\ pc[r] = "done" =>
              /\ Len(evals[r]) = num_batches \div checkpoint_iters
              /\ ckpts[r] = evals[r]
              /\ \A i \in 0 .. (num_batches - 1) :
                    Count(evals[r], i) = (IF (i + 1) % checkpoint_iters = 0 THEN 1 ELSE 0)

\* C3 witness: a finished run with evaluations, with iterations that had none,
\* and with a tail of iterations after the last evaluation.
C3_Witness ==
    \E r \in Ranks : /\ pc[r] = "done"
                     /\ Len(evals[r]) >= 2
                     /\ checkpoint_iters > 1
                     /\ num_batches % checkpoint_iters # 0

\* Number of save_best_model calls rank r has completed.
BestCalls(r) == Len(ckpts[r]) + (IF pc[r] = "ckpt" THEN 1 ELSE 0)

\* C4: every torch.save of save_checkpoint and of save_best_model was made by
\* rank 0, and the value save_best_model returns does not depend on the rank:
\* two ranks called with the same scores returned the same best score, a
\* better current score is returned as the new best score on every rank, and
\* ranks that completed the same number of calls hold the same best_score.
C4_OnlyRankZeroSaves ==
    /\ \A k \in 1 .. Len(checkpoints) : checkpoints[k].rank = 0
    /\ \A k \in 1 .. Len(best_model) : best_model[k].rank = 0
    /\ \A r1, r2 \in Ranks :
          (/\ best_call[r1].called /\ best_call[r2].called
           /\ best_call[r1].cur = best_call[r2].cur
           /\ best_call[r1].best = best_call[r2].best)
          => best_call[r1].ret = best_call[r2].ret
    /\ \A r \in Ranks :
          (best_call[r].called /\ best_call[r].cur > best_call[r].best)
          => best_call[r].ret = best_call[r].cur /\ best_score[r] >= best_call[r].cur
    /\ \A r1, r2 \in Ranks :
          BestCalls(r1) = BestCalls(r2) => best_score[r1] = best_score[r2]

\* C4 witness: a rank other than 0 has gone through save_best_model with a
\* better score and through save_checkpoint, and no file has been written.
C4_Witness ==
    \E r \in Ranks : /\ r # 0
                     /\ best_call[r].called
                     /\ best_call[r].cur > best_call[r].best
                     /\ Len(ckpts[r]) >= 1
                     /\ checkpoints = << >>
                     /\ best_model = << >>

\* C5: in the optimizer built, every parameter with dim() = 1 is once in the
\* group with weight_decay 0 and not in the other group, every parameter with
\* dim() = 2 or 4 is once in the group that uses the weight_decay argument and
\* not in the other group, and no parameter is twice in a group.
C5_DisjointGroups ==
    opt_pc = "done" =>
        /\ Len(param_groups) = 2
        /\ param_groups[1].weight_decay = weight_decay
        /\ param_groups[2].weight_decay = 0
        /\ \A i \in 1 .. Len(params) :
              /\ Count(param_groups[1].params, i) <= 1
              /\ Count(param_groups[2].params, i) <= 1
              /\ params[i] = 1 =>
                    /\ Count(param_groups[2].params, i) = 1
                    /\ Count(param_groups[1].params, i) = 0
              /\ params[i] \in {2, 4} =>
                    /\ Count(param_groups[1].params, i) = 1
                    /\ Count(param_groups[2].params, i) = 0

\* C5 witness: an optimizer built for parameters of dimensionality 1, 2 and 4.
C5_Witness ==
    /\ opt_pc = "done"
    /\ weight_decay > 0
    /\ \A d \in {1, 2, 4} : \E i \in 1 .. Len(params) : params[i] = d

\* C6 as stated: when train has returned on every rank, the most recently
\* written model_final_ checkpoint holds the weights after the last optimizer
\* step of the run.
C6_FinalWeightsSaved ==
    AllDone => /\ checkpoints # << >>
               /\ Last(checkpoints).weights = weights[0]

\* C6 amended: when train has returned on rank 0, floor(N / checkpoint_iters)
\* checkpoints have been written, the most recent one holds the weights after
\* optimizer step checkpoint_iters * floor(N / checkpoint_iters), and it holds
\* the weights after the last optimizer step exactly when checkpoint_iters
\* divides N.
C6_LastCheckpoint ==
    pc[0] = "done" =>
        /\ weights[0] = num_batches
        /\ Len(checkpoints) = num_batches \div checkpoint_iters
        /\ checkpoints # << >> =>
              Last(checkpoints).weights = checkpoint_iters * (num_batches \div checkpoint_iters)
        /\ (checkpoints # << >> /\ Last(checkpoints).weights = weights[0])
              <=> (num_batches % checkpoint_iters = 0)

\* C6 witness: train has returned, checkpoints were written, and optimizer
\* steps were made after the last of them.
C6_Witness ==
    /\ AllDone
    /\ checkpoints # << >>
    /\ num_batches % checkpoint_iters # 0
    /\ Last(checkpoints).weights < weights[0]

\* The ranks agree on the evaluations entered so far: no rank is past an
\* iteration whose evaluation another rank entered, and a rank in an evaluation
\* is only ahead of ranks still in backward() of that same iteration.
C7_SameEvaluations ==
    /\ \A r \in Ranks : evals[r] = CheckpointIterations(Decided(r))
    /\ \A r, q \in Ranks :
          /\ IsPrefix(evals[r], evals[q]) \/ IsPrefix(evals[q], evals[r])
          /\ (pc[r] = "eval" /\ Len(evals[q]) < Len(evals[r]))
                => (pc[q] = "backward" /\ iteration[q] = iteration[r])
          /\ (pc[r] = "done" /\ pc[q] = "done") => evals[r] = evals[q]

\* C7: with the same number of batches and the same checkpoint_iters on every
\* rank, all ranks enter evaluation at the same iterations and equally often,
\* no rank waits in an evaluation another rank skips, and every rank reaches
\* writer.close().
C7_AllRanksFinish == [] C7_SameEvaluations /\ <> AllDone

\* C7 witness: every rank has returned from a run with two or more evaluations.
C7_Witness ==
    /\ AllDone
    /\ \A r \in Ranks : Len(evals[r]) >= 2

====
